---- MODULE Spec2Model ----
(***************************************************************************)
(* AGET backup/rollback subsystem (aget/shared/backup.py) and the         *)
(* three-tier command execution contract (aget/base.py and the concrete   *)
(* commands under aget/config/commands).                                  *)
(*                                                                         *)
(* File contents are small integers, backup ids are the integer value of  *)
(* the truncated timestamp that follows the "backup_" prefix.             *)
(***************************************************************************)
EXTENDS Integers, Sequences, FiniteSets, TLC

\* ------------------------------------------------------------------------
\* Bounds of the model
\* ------------------------------------------------------------------------
MaxContent == 2      \* distinct file contents 1..MaxContent
MaxClock == 30       \* microseconds of activity the model explores

\* ------------------------------------------------------------------------
\* Program constants
\* ------------------------------------------------------------------------
\* strftime("%Y%m%d_%H%M%S_%f")[:21] drops the last of the six microsecond
\* digits: the timestamp counts units of StampDivisor microseconds.
StampDivisor == 10

files_to_backup == <<"AGENTS.md", "CLAUDE.md", ".aget/version.json">>

Paths == {files_to_backup[i] : i \in 1..Len(files_to_backup)}

NoContent == 0
NoTarget == ""
NoPath == "<none>"

\* backup_id values: a non-negative integer n stands for "backup_<timestamp n>".
NoneId == -1         \* backup_id = None
DotId == -2          \* backup_id = ".": names the backups directory itself
NoId == -3           \* field not present in a result

Contents == 1..MaxContent

\* ------------------------------------------------------------------------
\* The live project: every tracked path is absent, a regular file or a symlink
\* ------------------------------------------------------------------------
Absent == [kind |-> "absent", content |-> NoContent, target |-> NoTarget]

RegularFile(c) == [kind |-> "file", content |-> c, target |-> NoTarget]

Symlink(t) == [kind |-> "link", content |-> NoContent, target |-> t]

\* The link the installer creates is CLAUDE.md -> AGENTS.md; from inside .aget
\* the same file is reached as ../AGENTS.md.  AGENTS.md itself is never a link
\* in the model.
LinkTargets(p) ==
  IF p = "CLAUDE.md" THEN {"AGENTS.md"}
  ELSE IF p = ".aget/version.json" THEN {"../AGENTS.md"}
  ELSE {}

NodeStates(p) ==
  {Absent} \cup {RegularFile(c) : c \in Contents} \cup {Symlink(t) : t \in LinkTargets(p)}

\* Path a relative link target names, seen from the directory of the link.
Resolve(p, t) ==
  IF p = ".aget/version.json"
  THEN (IF t = "../AGENTS.md" THEN "AGENTS.md" ELSE NoPath)
  ELSE (IF t \in {"AGENTS.md", "CLAUDE.md"} THEN t ELSE NoPath)

\* Path of the regular file that p denotes after following symlinks, NoPath
\* if there is none (missing, dangling or looping link).
RECURSIVE Deref(_, _, _)
Deref(live, p, fuel) ==
  IF p = NoPath \/ fuel = 0 THEN NoPath
  ELSE IF live[p].kind = "file" THEN p
  ELSE IF live[p].kind = "link" THEN Deref(live, Resolve(p, live[p].target), fuel - 1)
  ELSE NoPath

\* Path.exists(): follows symlinks, False on ENOENT and ELOOP
exists(live, p) == Deref(live, p, Len(files_to_backup) + 1) # NoPath

\* Path.is_symlink(): does not follow
is_symlink(live, p) == live[p].kind = "link"

\* Path.is_file(): follows symlinks
is_file(live, p) == exists(live, p)

\* ------------------------------------------------------------------------
\* Backup directories and the metadata index
\* ------------------------------------------------------------------------
\* One entry of a backup directory: the copied file <name> (copy) and the
\* sidecar <name>.link (link); either may be missing.
NoEntry == [copy |-> NoContent, link |-> NoTarget]

EmptyDir == [p \in Paths |-> NoEntry]

Put(f, k, v) == [x \in (DOMAIN f) \cup {k} |-> IF x = k THEN v ELSE f[x]]

Drop(f, ks) == [x \in (DOMAIN f) \ ks |-> f[x]]

Timestamp(clock) == clock \div StampDivisor

\* The condition under which create_backup captures a path (lines 53-54).
Captured(live, p) == exists(live, p) /\ (is_file(live, p) \/ is_symlink(live, p))

\* What create_backup leaves in the backup directory for path p (lines 55-70).
CaptureEntry(live, p, old) ==
  IF ~Captured(live, p) THEN old
  ELSE IF is_symlink(live, p) THEN [old EXCEPT !.link = live[p].target]
  ELSE [old EXCEPT !.copy = live[p].content]

\* A variant of create_backup that does not index a backup that holds no
\* file.
create_backup_skips_empty(st, reason, clock) ==
  LET timestamp == Timestamp(clock)
      backup_id == timestamp
      olddir == IF backup_id \in DOMAIN st.dirs THEN st.dirs[backup_id] ELSE EmptyDir
      newdir == [p \in Paths |-> CaptureEntry(st.live, p, olddir[p])]
      backed_up == SelectSeq(files_to_backup, LAMBDA p : Captured(st.live, p))
      metadata == [backup_id |-> backup_id, timestamp |-> timestamp,
                   reason |-> reason, files |-> backed_up]
  IN [st |-> [live |-> st.live,
              dirs |-> Put(st.dirs, backup_id, newdir),
              manifest |-> IF backed_up = <<>> THEN st.manifest
                           ELSE Put(st.manifest, backup_id, metadata)],
      backup_id |-> backup_id,
      status |-> "success",
      files_backed_up |-> Len(backed_up)]

create_backup(st, reason, clock) ==
  LET timestamp == Timestamp(clock)
      backup_id == timestamp
      \* backup_path.mkdir(exist_ok=True): an existing directory is reused
      olddir == IF backup_id \in DOMAIN st.dirs THEN st.dirs[backup_id] ELSE EmptyDir
      newdir == [p \in Paths |-> CaptureEntry(st.live, p, olddir[p])]
      backed_up == SelectSeq(files_to_backup, LAMBDA p : Captured(st.live, p))
      metadata == [backup_id |-> backup_id, timestamp |-> timestamp,
                   reason |-> reason, files |-> backed_up]
  IN [st |-> [live |-> st.live,
              dirs |-> Put(st.dirs, backup_id, newdir),
              manifest |-> Put(st.manifest, backup_id, metadata)],
      backup_id |-> backup_id,
      status |-> "success",
      files_backed_up |-> Len(backed_up)]

\* Ids in descending order (timestamps are the ids, so there are no ties).
RECURSIVE SortDesc(_)
SortDesc(S) ==
  IF S = {} THEN <<>>
  ELSE LET m == CHOOSE x \in S : \A y \in S : y <= x
       IN <<m>> \o SortDesc(S \ {m})

\* A variant of list_backups without the backup_path.exists() test.
list_backups_unfiltered(st) ==
  LET listed == DOMAIN st.manifest
      order == SortDesc({st.manifest[id].timestamp : id \in listed})
  IN [i \in 1..Len(order) |->
        LET id == CHOOSE b \in listed : st.manifest[b].timestamp = order[i]
        IN [id |-> id,
            timestamp |-> st.manifest[id].timestamp,
            reason |-> st.manifest[id].reason,
            files |-> st.manifest[id].files]]

\* A variant of list_backups that sorts without reverse=True.
list_backups_oldest_first(st) ==
  LET listed == {id \in DOMAIN st.manifest : id \in DOMAIN st.dirs}
      order == SortDesc({st.manifest[id].timestamp : id \in listed})
      n == Len(order)
  IN [i \in 1..n |->
        LET id == CHOOSE b \in listed : st.manifest[b].timestamp = order[n + 1 - i]
        IN [id |-> id,
            timestamp |-> st.manifest[id].timestamp,
            reason |-> st.manifest[id].reason,
            files |-> st.manifest[id].files]]

list_backups(st) ==
  LET listed == {id \in DOMAIN st.manifest : id \in DOMAIN st.dirs}
      order == SortDesc({st.manifest[id].timestamp : id \in listed})
  IN [i \in 1..Len(order) |->
        LET id == CHOOSE b \in listed : st.manifest[b].timestamp = order[i]
        IN [id |-> id,
            timestamp |-> st.manifest[id].timestamp,
            reason |-> st.manifest[id].reason,
            files |-> st.manifest[id].files]]

\* A variant of list_backups() that drops from the manifest the entries it
\* skips.
list_backups_pruning(st) ==
  [st |-> [live |-> st.live,
           dirs |-> st.dirs,
           manifest |-> [id \in DOMAIN st.manifest \cap DOMAIN st.dirs |->
                           st.manifest[id]]],
   listing |-> list_backups(st)]

\* list_backups() as a call on the project: the store it leaves (it has no
\* write) and the list it returns.
list_backups_call(st) ==
  [st |-> st,
   listing |-> list_backups(st)]

\* (self.backup_dir / backup_id).exists()
backup_path_exists(st, backup_id) == backup_id = DotId \/ backup_id \in DOMAIN st.dirs

\* shutil.copy2(source, dest) onto the live project: the destination is opened
\* for writing, which follows a symlink at dest (and creates its target).
\* Result: the new live files, or raised when the open fails.
copy2(live, dest, c) ==
  IF live[dest].kind # "link"
  THEN [live |-> [live EXCEPT ![dest] = RegularFile(c)], raised |-> FALSE]
  ELSE LET q == Resolve(dest, live[dest].target)
       IN IF q = NoPath \/ live[q].kind = "link"
          THEN [live |-> live, raised |-> TRUE]
          ELSE [live |-> [live EXCEPT ![q] = RegularFile(c)], raised |-> FALSE]

\* The symlink branch of rollback (lines 156-159).
restore_symlink(live, dest, t) ==
  LET afterUnlink == IF exists(live, dest) THEN [live EXCEPT ![dest] = Absent] ELSE live
  IN IF afterUnlink[dest].kind # "absent"
     THEN [live |-> afterUnlink, raised |-> TRUE]       \* FileExistsError
     ELSE [live |-> [afterUnlink EXCEPT ![dest] = Symlink(t)], raised |-> FALSE]

\* The restore loop of rollback (lines 147-164) from position i on.
RECURSIVE restore_files(_, _, _, _, _)
restore_files(live, dir, files, i, restored) ==
  IF i > Len(files) THEN [live |-> live, restored |-> restored, raised |-> FALSE]
  ELSE LET file_name == files[i]
           entry == dir[file_name]
       IN IF entry.copy = NoContent                       \* source.exists() is False
          THEN restore_files(live, dir, files, i + 1, restored)
          ELSE LET r == IF entry.link # NoTarget
                        THEN restore_symlink(live, file_name, entry.link)
                        ELSE copy2(live, file_name, entry.copy)
               IN IF r.raised
                  THEN [live |-> r.live, restored |-> restored, raised |-> TRUE]
                  ELSE restore_files(r.live, dir, files, i + 1, Append(restored, file_name))

ErrorResult(st, msg) ==
  [st |-> st, status |-> "error", error |-> msg, backup_id |-> NoId,
   files_restored |-> 0, pre_rollback_backup |-> NoId]

\* rollback once the backup to restore is known (lines 132-172).
rollback_existing(st, backup_id, clock) ==
  IF ~backup_path_exists(st, backup_id)
  THEN ErrorResult(st, "Backup not found")
  ELSE
    LET pre_rollback == create_backup(st, "pre-rollback", clock)
        st1 == pre_rollback.st
        \* metadata.get(backup_id, {}).get("files", []), read after the
        \* pre-rollback backup was indexed
        files == IF backup_id \in DOMAIN st1.manifest
                 THEN st1.manifest[backup_id].files ELSE <<>>
        dir == IF backup_id \in DOMAIN st1.dirs THEN st1.dirs[backup_id] ELSE EmptyDir
        r == restore_files(st1.live, dir, files, 1, <<>>)
    IN [st |-> [st1 EXCEPT !.live = r.live],
        status |-> IF r.raised THEN "raised" ELSE "success",
        error |-> IF r.raised THEN "OSError" ELSE "",
        backup_id |-> backup_id,
        files_restored |-> Len(r.restored),
        pre_rollback_backup |-> pre_rollback.backup_id]

\* rollback that writes its safety backup before it looks for a backup to
\* restore.
rollback_backup_first(st, requested, clock) ==
  LET backups == list_backups(st)
  IN IF requested = NoneId /\ backups = <<>>
     THEN ErrorResult(create_backup(st, "pre-rollback", clock).st, "No backups available")
     ELSE rollback_existing(st, IF requested = NoneId THEN backups[1].id ELSE requested, clock)

\* A variant of rollback that takes the last record of the listing when no
\* id is given.
rollback_oldest(st, requested, clock) ==
  LET backups == list_backups(st)
  IN IF requested = NoneId /\ backups = <<>>
     THEN ErrorResult(st, "No backups available")
     ELSE rollback_existing(st, IF requested = NoneId THEN backups[Len(backups)].id
                                ELSE requested, clock)

rollback(st, requested, clock) ==
  LET backups == list_backups(st)
  IN IF requested = NoneId /\ backups = <<>>
     THEN ErrorResult(st, "No backups available")
     ELSE rollback_existing(st, IF requested = NoneId THEN backups[1].id ELSE requested, clock)

\* backups[keep:] with Python's slice semantics
Slice(s, keep) ==
  LET n == Len(s)
      start == IF keep < 0 THEN (IF n + keep < 0 THEN 0 ELSE n + keep)
               ELSE (IF keep > n THEN n ELSE keep)
  IN SubSeq(s, start + 1, n)

\* A variant of cleanup_old_backups that keeps one backup more than asked.
cleanup_keeps_one_more(st, keep) ==
  LET backups == list_backups(st)
  IN IF Len(backups) <= keep + 1
     THEN [st |-> st, removed |-> 0]
     ELSE LET to_remove == Slice(backups, keep + 1)
              ids == {to_remove[i].id : i \in 1..Len(to_remove)}
          IN [st |-> [live |-> st.live,
                      dirs |-> Drop(st.dirs, ids),
                      manifest |-> Drop(st.manifest, ids)],
              removed |-> Cardinality(ids \cap DOMAIN st.dirs)]

cleanup_old_backups(st, keep) ==
  LET backups == list_backups(st)
  IN IF Len(backups) <= keep
     THEN [st |-> st, removed |-> 0]
     ELSE LET to_remove == Slice(backups, keep)
              ids == {to_remove[i].id : i \in 1..Len(to_remove)}
          IN [st |-> [live |-> st.live,
                      dirs |-> Drop(st.dirs, ids),
                      manifest |-> Drop(st.manifest, ids)],
              removed |-> Cardinality(ids \cap DOMAIN st.dirs)]

\* ------------------------------------------------------------------------
\* State of one project directory with its BackupManager
\* ------------------------------------------------------------------------
VARIABLES
  live,        \* tracked path -> Absent | RegularFile | Symlink
  dirs,        \* backup id -> contents of .aget/backups/<id>/
  manifest,    \* metadata.json: backup id -> record
  now,         \* the wall clock (microseconds) datetime.now() reads
  result,      \* what the last BackupManager call returned
  pre_live,    \* the live files as they were when the last call started
  snap,        \* backup id -> the live files as they were when it was written
  capabilities, \* what Capabilities.detect_all() found: [gh, git]
  call,        \* the last execute() call of a command, the seconds it took
               \* and what came of it
  host,        \* which tools are on the PATH now: [gh, git]
  probe,       \* the lru_caches of Capabilities, how often each tool was
               \* looked up, and what the last capability call returned
  cli          \* the last AgetCLI.route_command call and what came of it

bvars == <<live, dirs, manifest, now, result, pre_live, snap>>

cvars == <<capabilities, call>>

pvars == <<host, probe, cli>>

vars == <<live, dirs, manifest, now, result, pre_live, snap, capabilities, call,
          host, probe, cli>>

store == [live |-> live, dirs |-> dirs, manifest |-> manifest]

NoResult ==
  [op |-> "none", status |-> "", requested |-> NoId, backup_id |-> NoId,
   files_backed_up |-> 0, files_restored |-> 0, pre_rollback_backup |-> NoId,
   error |-> "", keep |-> 0, removed |-> 0, listing |-> <<>>]

\* --- commands ------------------------------------------------------------
Tiers == {"gh", "git", "basic"}

CapabilitySets == [gh : BOOLEAN, git : BOOLEAN]

NoTools == [gh |-> FALSE, git |-> FALSE]

\* No exit code: the handler did not return.
NoCode == -1

NoCmdResult ==
  [keys |-> {}, success |-> FALSE, tier_used |-> "", error |-> "",
   execution_time |-> 0, git_commit |-> FALSE, gh_issue |-> FALSE]

\* The tools whose presence selects the tier.
Tools == {"gh", "git"}

\* The caches of a process in which detect_all() has returned caps: each tool
\* was looked up once.
Probed(caps) ==
  [cached |-> TRUE, known |-> Tools, has |-> caps,
   count |-> [gh |-> 1, git |-> 1], op |-> "none", name |-> "", seen |-> NoTools,
   answer |-> FALSE]

\* The caches of a fresh process: nothing was looked up.
Unprobed ==
  [cached |-> FALSE, known |-> {}, has |-> NoTools,
   count |-> [gh |-> 0, git |-> 0], op |-> "none", name |-> "", seen |-> NoTools,
   answer |-> FALSE]

\* No route_command call has been made yet.
NoRun ==
  [args |-> <<>>, routed |-> FALSE, handled |-> <<>>, ran |-> <<>>,
   printed |-> <<>>, code |-> NoCode]

\* No execute() call has been made yet.
NoCall ==
  [cmd |-> "none", via |-> "none", invoked |-> <<>>, raised |-> FALSE,
   returned |-> FALSE, escaped |-> FALSE, body_ok |-> FALSE, seconds |-> 0,
   list |-> FALSE, git |-> "none", gh |-> "none",
   code |-> NoCode, result |-> NoCmdResult]

\* A fresh project or one set up by the installer (AGENTS.md, the CLAUDE.md
\* compatibility link, a version file); BackupManager.__init__ only creates
\* the empty .aget/backups directory.
InitialProjects ==
  { [p \in Paths |-> Absent],
    [p \in Paths |-> IF p = "CLAUDE.md" THEN Symlink("AGENTS.md") ELSE RegularFile(1)],
    [p \in Paths |-> IF p = "CLAUDE.md" THEN RegularFile(MaxContent) ELSE RegularFile(1)] }

BackupInit ==
  /\ live \in InitialProjects
  /\ dirs = << >>
  /\ manifest = << >>
  /\ now = 0
  /\ result = NoResult
  /\ pre_live = live
  /\ snap = << >>
  /\ capabilities = NoTools
  /\ call = NoCall
  /\ host = NoTools
  /\ probe = Probed(NoTools)
  /\ cli = NoRun

\* snap after a call that took the live files `before` to the store st: ids
\* written by the call record `before`, ids no longer indexed are forgotten.
Snapped(st, written, before) ==
  [id \in DOMAIN st.manifest |->
     IF id \in written \/ id \notin DOMAIN snap THEN before ELSE snap[id]]

SetStore(st) ==
  /\ live' = st.live
  /\ dirs' = st.dirs
  /\ manifest' = st.manifest

\* The ids a caller may pass: every id the clock can produce, ".", and None.
StampIds == 0..(MaxClock \div StampDivisor)

RequestIds == StampIds \cup {DotId, NoneId}

KeepValues == -1..2

\* --- environment ---------------------------------------------------------
\* Time a call that writes a backup takes: less than one timestamp unit when
\* calls follow each other rapidly, a full unit otherwise.  What the user
\* does by hand (editing a tracked file, removing a backup directory) takes a
\* full unit.  MaxClock bounds the activity as a whole.
Elapsed == {StampDivisor \div 2, StampDivisor}

Advance ==
  \E d \in Elapsed :
    /\ now + d <= MaxClock
    /\ now' = now + d

EditLive ==
  /\ now + StampDivisor <= MaxClock
  /\ \E p \in Paths : \E s \in NodeStates(p) \ {live[p]} :
       live' = [live EXCEPT ![p] = s]
  /\ now' = now + StampDivisor
  /\ result' = [NoResult EXCEPT !.op = "edit"]
  /\ pre_live' = live
  /\ UNCHANGED <<dirs, manifest, snap, capabilities, call, host, probe, cli>>

DeleteBackupDir ==
  /\ now + StampDivisor <= MaxClock
  /\ \E id \in DOMAIN dirs : dirs' = Drop(dirs, {id})
  /\ now' = now + StampDivisor
  /\ result' = [NoResult EXCEPT !.op = "rmdir"]
  /\ pre_live' = live
  /\ UNCHANGED <<live, manifest, snap, capabilities, call, host, probe, cli>>

\* --- BackupManager calls -------------------------------------------------
CreateBackup ==
  \E r \in {create_backup(store, "manual", now)} :
     /\ SetStore(r.st)
     /\ result' = [NoResult EXCEPT !.op = "create_backup", !.status = r.status,
                                   !.backup_id = r.backup_id,
                                   !.files_backed_up = r.files_backed_up]
     /\ pre_live' = live
     /\ snap' = Snapped(r.st, {r.backup_id}, live)
     /\ Advance
     /\ call' = NoCall
     /\ UNCHANGED <<capabilities, host, probe, cli>>

ListBackups ==
  \E r \in {list_backups_call(store)} :
     /\ SetStore(r.st)
     /\ result' = [NoResult EXCEPT !.op = "list_backups", !.status = "success",
                                   !.listing = r.listing]
     /\ pre_live' = live
     /\ UNCHANGED <<now, snap, capabilities, call, host, probe, cli>>

Rollback ==
  \E requested \in RequestIds :
    \E r \in {rollback(store, requested, now)} :
       /\ SetStore(r.st)
       /\ result' = [NoResult EXCEPT !.op = "rollback", !.status = r.status,
                                     !.requested = requested,
                                     !.backup_id = r.backup_id,
                                     !.files_restored = r.files_restored,
                                     !.pre_rollback_backup = r.pre_rollback_backup,
                                     !.error = r.error]
       /\ pre_live' = live
       /\ snap' = Snapped(r.st, {r.pre_rollback_backup}, live)
       /\ IF r.pre_rollback_backup = NoId THEN now' = now ELSE Advance
       /\ UNCHANGED <<capabilities, call, host, probe, cli>>
  
CleanupOldBackups ==
  \E keep \in KeepValues :
    \E r \in {cleanup_old_backups(store, keep)} :
       /\ SetStore(r.st)
       /\ result' = [NoResult EXCEPT !.op = "cleanup_old_backups", !.status = "success",
                                     !.keep = keep, !.removed = r.removed]
       /\ pre_live' = live
       /\ snap' = Snapped(r.st, {}, live)
       /\ UNCHANGED <<now, capabilities, call, host, probe, cli>>

BackupNext ==
  \/ EditLive
  \/ DeleteBackupDir
  \/ CreateBackup
  \/ ListBackups
  \/ Rollback
  \/ CleanupOldBackups

Spec == BackupInit /\ [][BackupNext]_vars

\* The project when nothing but the BackupManager touches .aget/backups.
ApiNext ==
  \/ EditLive
  \/ CreateBackup
  \/ ListBackups
  \/ Rollback
  \/ CleanupOldBackups

SpecApi == BackupInit /\ [][ApiNext]_vars

TypeOK ==
  /\ \A p \in Paths : live[p] \in NodeStates(p)
  /\ DOMAIN dirs \subseteq StampIds
  /\ DOMAIN manifest \subseteq StampIds
  /\ now \in 0..MaxClock

\* ------------------------------------------------------------------------
\* Commands: BaseCommand.execute and the concrete commands
\* ------------------------------------------------------------------------
\* Seconds above which BaseCommand.execute attaches a warning.
SoftCeiling == 2

\* Seconds one execute() call may take: within the ceiling, or above it.
Durations == {1, SoftCeiling + 1}

\* The concrete commands ConfigModule dispatches to, and a command that
\* implements tier_basic only (all that BaseCommand requires of a subclass).
ConcreteCommands ==
  {"validate", "apply", "rollback", "list", "evolution", "extract", "migrate"}

Commands == ConcreteCommands \cup {"basic_only"}

\* Tier methods the command's class defines itself.
Overrides(cmd) ==
  IF cmd \in {"migrate", "basic_only"} THEN {"basic"} ELSE Tiers

\* Commands whose class replaces BaseCommand.execute by execute(args).
OverridesExecute == {"evolution", "extract", "migrate"}

\* Tier methods BaseCommand defines for every subclass (they raise
\* NotImplementedError); tier_basic is abstract.
BaseDefined == {"git", "gh"}

\* hasattr(self, 'tier_<tier>')
hasattr(cmd, tier) == tier \in Overrides(cmd) \cup BaseDefined

\* Whether the command's own body can hit an exception (I/O on the project
\* directory); MigrateCommand only formats a string.
MayRaise(cmd) == cmd # "migrate"

\* Whether the command's own body can raise SystemExit: ValidateCommand
\* parses its arguments with argparse, which exits on --help and on an
\* argument it does not know.
MayExit(cmd) == cmd = "validate"

\* Whether the command's own body can return success False.
MayFail(cmd) == cmd # "migrate"

\* Commands with a listing mode that succeeds without doing their work:
\* 'rollback --list' and 'apply' without a pattern id.
HasListMode == {"rollback", "apply"}

\* Keys of the dict the command's own body returns.
BodyKeys(cmd, body) ==
  CASE cmd = "migrate" -> {"success", "message", "requires_agent"}
    [] cmd = "validate" -> {"success", "checks_passed", "checks_total", "errors",
                            "warnings", "execution_time"}
    [] cmd = "rollback" ->
         IF body.list THEN {"success", "action", "backups", "message"}
         ELSE IF body.ok THEN {"success", "backup_id", "files_restored",
                               "pre_rollback_backup", "message"}
         ELSE {"success", "error"}
    [] cmd = "apply" ->
         IF body.list THEN {"success", "patterns"}
         ELSE IF body.ok THEN {"success", "pattern", "result"}
         ELSE {"success", "error"}
    [] cmd = "list" ->
         IF body.ok THEN {"success", "patterns", "installed"} ELSE {"success", "error"}
    [] OTHER ->
         IF body.ok THEN {"success", "message"} ELSE {"success", "error"}

\* Outcomes of a subprocess step of a rich tier: the tool exits 0, exits
\* non-zero, or subprocess.run raises (timeout, tool not found); NoStep when
\* the step is not run.
Steps == {"ok", "nonzero", "raise"}

NoStep == "none"

\* The part of RollbackCommand.tier_git after tier_basic returned out.
tier_git(out, body) ==
  IF ~out.success \/ "action" \in out.keys THEN out
  ELSE IF body.git = "raise"
  THEN [out EXCEPT !.keys = @ \cup {"git_commit", "git_error"}]
  ELSE [out EXCEPT !.keys = @ \cup {"git_commit"}, !.git_commit = TRUE]

\* The part of RollbackCommand.tier_gh after tier_git returned out.
tier_gh(out, body) ==
  IF ~out.success \/ "action" \in out.keys THEN out
  ELSE CASE body.gh = "ok" ->
              [out EXCEPT !.keys = @ \cup {"gh_issue", "issue_url"}, !.gh_issue = TRUE]
         [] body.gh = "raise" ->
              [out EXCEPT !.keys = @ \cup {"gh_issue", "gh_error"}]
         [] OTHER ->
              [out EXCEPT !.keys = @ \cup {"gh_issue"}]

\* What calling self.tier_<tier>() does: body is what the command's own code
\* does when it runs, [fault, exit, ok, list, git, gh].  The git and gh tiers
\* of every concrete command run its tier_basic first; those of
\* RollbackCommand then run their git and gh steps.  raises is "Exception"
\* for an exception of that class, "SystemExit" for an exit, "" for a return.
TierBody(cmd, tier, body) ==
  IF tier \notin Overrides(cmd)
  THEN [raises |-> "Exception", error |-> "does not implement tier", keys |-> {},
        success |-> FALSE, git_commit |-> FALSE, gh_issue |-> FALSE]
  ELSE IF body.exit
  THEN [raises |-> "SystemExit", error |-> "", keys |-> {}, success |-> FALSE,
        git_commit |-> FALSE, gh_issue |-> FALSE]
  ELSE IF body.fault
  THEN [raises |-> "Exception", error |-> "exception in body", keys |-> {},
        success |-> FALSE, git_commit |-> FALSE, gh_issue |-> FALSE]
  ELSE LET basic == [raises |-> "", error |-> "", keys |-> BodyKeys(cmd, body),
                     success |-> body.ok, git_commit |-> FALSE, gh_issue |-> FALSE]
       IN IF cmd # "rollback" \/ tier = "basic" THEN basic
          ELSE IF tier = "git" THEN tier_git(basic, body)
          ELSE tier_gh(tier_git(basic, body), body)

\* The tier BaseCommand.execute selects.
SelectTier(cmd, caps) ==
  IF caps.gh /\ hasattr(cmd, "gh") THEN "gh"
  ELSE IF caps.git /\ hasattr(cmd, "git") THEN "git"
  ELSE "basic"

\* The result dict of the except branch of BaseCommand.execute.
FailureResult(error, seconds) ==
  [keys |-> {"success", "error", "tier_used", "execution_time"},
   success |-> FALSE, tier_used |-> "error", error |-> error,
   execution_time |-> seconds, git_commit |-> FALSE, gh_issue |-> FALSE]

\* The result dict of the normal path of BaseCommand.execute.
TierResult(out, tier, seconds) ==
  [keys |-> out.keys \cup {"tier_used", "execution_time"}
              \cup (IF seconds > SoftCeiling THEN {"warning"} ELSE {}),
   success |-> out.success, tier_used |-> tier, error |-> "",
   execution_time |-> seconds, git_commit |-> out.git_commit,
   gh_issue |-> out.gh_issue]

\* BaseCommand.execute: one tier is selected and invoked; an Exception from
\* it is turned into the failure result, anything else it raises propagates.
execute(cmd, caps, body, seconds) ==
  LET tier == SelectTier(cmd, caps)
      out == TierBody(cmd, tier, body)
  IN IF out.raises = "Exception"
     THEN [invoked |-> <<tier>>, raised |-> TRUE, returned |-> TRUE,
           escaped |-> FALSE, ran |-> FALSE,
           result |-> FailureResult(out.error, seconds)]
     ELSE IF out.raises = "SystemExit"
     THEN [invoked |-> <<tier>>, raised |-> TRUE, returned |-> FALSE,
           escaped |-> TRUE, ran |-> FALSE, result |-> NoCmdResult]
     ELSE [invoked |-> <<tier>>, raised |-> FALSE, returned |-> TRUE,
           escaped |-> FALSE, ran |-> TRUE,
           result |-> TierResult(out, tier, seconds)]

\* execute(args) of EvolutionCommand, ExtractCommand and MigrateCommand: the
\* body's dict is returned as it is, an exception propagates to the caller.
execute_override(cmd, body) ==
  IF body.fault
  THEN [invoked |-> <<>>, raised |-> TRUE, returned |-> FALSE, escaped |-> TRUE,
        ran |-> FALSE, result |-> NoCmdResult]
  ELSE [invoked |-> <<>>, raised |-> FALSE, returned |-> TRUE, escaped |-> FALSE,
        ran |-> TRUE,
        result |-> [keys |-> BodyKeys(cmd, body), success |-> body.ok,
                    tier_used |-> "", error |-> "", execution_time |-> 0,
                    git_commit |-> FALSE, gh_issue |-> FALSE]]

Bodies(cmd) ==
  { b \in [fault : BOOLEAN, exit : BOOLEAN, ok : BOOLEAN, list : BOOLEAN,
           git : {NoStep}, gh : {NoStep}] :
      /\ (b.fault => MayRaise(cmd) /\ ~b.exit /\ ~b.ok)
      /\ (b.exit => MayExit(cmd) /\ ~b.ok)
      /\ (~b.ok /\ ~b.fault /\ ~b.exit => MayFail(cmd))
      /\ (b.list => cmd \in HasListMode /\ (b.ok \/ b.fault)) }

\* Keys ConfigModule.cmd_<cmd> subscripts on its success path.
Subscripted(cmd, res) ==
  CASE cmd = "validate" -> {"checks_passed", "checks_total"}
    [] cmd = "apply" -> IF "patterns" \in res.keys THEN {} ELSE {"pattern"}
    [] cmd = "rollback" -> {"tier_used", "files_restored", "execution_time"}
    [] cmd \in {"evolution", "migrate"} -> {"message"}
    [] OTHER -> {}

\* A variant of cmd_handler that shows the error and returns 0, as the
\* handlers of unknown commands do.
cmd_handler_lenient(cmd, res) ==
  IF cmd = "rollback" /\ "action" \in res.keys THEN 0
  ELSE IF res.success
  THEN (IF Subscripted(cmd, res) \subseteq res.keys THEN 0 ELSE NoCode)
  ELSE 0

\* ConfigModule.cmd_<cmd> once cmd.execute has returned res: the exit code,
\* NoCode when a subscript raises KeyError.
cmd_handler(cmd, res) ==
  IF cmd = "rollback" /\ "action" \in res.keys THEN 0
  ELSE IF res.success
  THEN (IF Subscripted(cmd, res) \subseteq res.keys THEN 0 ELSE NoCode)
  ELSE 1

Called(cmd, via, body, r) ==
  [cmd |-> cmd, via |-> via, invoked |-> r.invoked, raised |-> r.raised,
   returned |-> r.returned, escaped |-> r.escaped,
   body_ok |-> (~body.fault /\ ~body.exit /\ body.ok), seconds |-> 0,
   list |-> body.list, git |-> body.git, gh |-> body.gh,
   code |-> IF r.returned /\ cmd \in ConcreteCommands
            THEN cmd_handler(cmd, r.result) ELSE NoCode,
   result |-> r.result]

CmdInit ==
  /\ live \in InitialProjects
  /\ dirs = << >>
  /\ manifest = << >>
  /\ now = 0
  /\ result = NoResult
  /\ pre_live = live
  /\ snap = << >>
  /\ capabilities \in CapabilitySets
  /\ call = NoCall
  /\ host = capabilities
  /\ probe = Probed(capabilities)
  /\ cli = NoRun

\* cmd.execute(args=args) of a command that inherits BaseCommand.execute and
\* does not touch the backups.  A command run takes at least one timestamp
\* unit of the clock.
ExecuteBase ==
  /\ now + StampDivisor <= MaxClock
  /\ now' = now + StampDivisor
  /\ \E cmd \in (Commands \ OverridesExecute) \ {"rollback"} :
      \E body \in Bodies(cmd) : \E seconds \in Durations :
        \E r \in {execute(cmd, capabilities, body, seconds)} :
          call' = [Called(cmd, "BaseCommand.execute", body, r) EXCEPT !.seconds = seconds]
  /\ result' = NoResult
  /\ pre_live' = live
  /\ UNCHANGED <<live, dirs, manifest, snap, capabilities, host, probe, cli>>

\* A variant of rollback_command in which the gh tier runs the rollback
\* itself after the git tier has run it.
rollback_command_twice(st, requested, list, tier, clock) ==
  IF list THEN [st |-> st, m |-> ErrorResult(st, ""), rollbacks |-> 0]
  ELSE LET m == rollback(st, requested, clock)
           again == rollback(m.st, requested, clock + StampDivisor)
       IN IF tier = "gh" /\ m.status = "success"
          THEN [st |-> again.st, m |-> again, rollbacks |-> 2]
          ELSE [st |-> m.st, m |-> m, rollbacks |-> 1]

\* What one run of RollbackCommand's tier does to the project: with --list
\* it only lists; otherwise tier_basic, reached directly or through tier_git
\* and tier_gh, calls BackupManager().rollback(backup_id) once.
rollback_command(st, requested, list, tier, clock) ==
  IF list THEN [st |-> st, m |-> ErrorResult(st, ""), rollbacks |-> 0]
  ELSE LET m == rollback(st, requested, clock)
       IN [st |-> m.st, m |-> m, rollbacks |-> 1]

\* RollbackCommand().execute(args=[id]) or execute(args=['--list']): the tier
\* that runs calls tier_basic, unless an exception stops it before (fault);
\* an exception inside BackupManager.rollback leaves what it had written.
\* The id plays no part in a listing or in a call that fails before it
\* reads it, so those are drawn without an id.  The run is taken to stay
\* within the ceiling: a slow call differs by the warning only, which
\* ExecuteBase covers.
ExecuteRollback ==
  \E requested \in RequestIds : \E list \in BOOLEAN :
    \E c \in {rollback_command(store, requested, list,
                                SelectTier("rollback", capabilities), now)} :
      \E fault \in {f \in BOOLEAN : (f \/ list) => requested = NoneId} :
       \E seconds \in {d \in Durations : d <= SoftCeiling} :
        \E git \in (IF /\ ~fault /\ ~list /\ c.m.status = "success"
                        /\ SelectTier("rollback", capabilities) \in {"git", "gh"}
                     THEN Steps ELSE {NoStep}) :
          \E gh \in (IF /\ ~fault /\ ~list /\ c.m.status = "success"
                         /\ SelectTier("rollback", capabilities) = "gh"
                      THEN Steps ELSE {NoStep}) :
            \E body \in {[fault |-> fault \/ (~list /\ c.m.status = "raised"),
                           exit |-> FALSE,
                           ok |-> ~fault /\ (list \/ c.m.status = "success"),
                           list |-> list, git |-> git, gh |-> gh]} :
              \E r \in {execute("rollback", capabilities, body, seconds)} :
                /\ call' = [Called("rollback", "BaseCommand.execute", body, r)
                               EXCEPT !.seconds = seconds, !.list = list,
                                      !.git = git, !.gh = gh]
                /\ IF ~fault /\ ~list
                   THEN /\ SetStore(c.st)
                        /\ result' = [NoResult EXCEPT !.op = "rollback",
                                         !.status = c.m.status,
                                         !.requested = requested,
                                         !.backup_id = c.m.backup_id,
                                         !.files_restored = c.m.files_restored,
                                         !.pre_rollback_backup = c.m.pre_rollback_backup,
                                         !.error = c.m.error]
                        /\ pre_live' = live
                        /\ snap' = Snapped(c.st, {c.m.pre_rollback_backup}, live)
                        /\ IF c.m.pre_rollback_backup = NoId THEN now' = now ELSE Advance
                   ELSE /\ result' = NoResult
                        /\ pre_live' = live
                        /\ UNCHANGED <<live, dirs, manifest, now, snap>>
                /\ UNCHANGED <<capabilities, host, probe, cli>>

\* cmd.execute(args) of a command that defines its own execute.
ExecuteOverride ==
  /\ now + StampDivisor <= MaxClock
  /\ now' = now + StampDivisor
  /\ \E cmd \in OverridesExecute : \E body \in Bodies(cmd) :
      \E r \in {execute_override(cmd, body)} :
        call' = Called(cmd, "execute", body, r)
  /\ result' = NoResult
  /\ pre_live' = live
  /\ UNCHANGED <<live, dirs, manifest, snap, capabilities, host, probe, cli>>

CmdNext ==
  \/ CreateBackup
  \/ ExecuteBase
  \/ ExecuteRollback
  \/ ExecuteOverride

SpecCmd == CmdInit /\ [][CmdNext]_vars

\* ------------------------------------------------------------------------
\* The process: capability detection and the command-line router
\* ------------------------------------------------------------------------
\* Longest argument list given to route_command.
MaxArgs == 2

\* Capabilities.has_gh() / has_git(): shutil.which behind an lru_cache.
has_tool(pr, h, name) ==
  IF name \in pr.known
  THEN [probe |-> pr, value |-> pr.has[name]]
  ELSE [probe |-> [pr EXCEPT !.known = @ \cup {name},
                             !.has[name] = h[name],
                             !.count[name] = @ + 1],
        value |-> h[name]]

\* A variant of detect_all without its lru_cache: every call looks the tools
\* up on the PATH again.
detect_all_uncached(caps, pr, h) ==
  [caps |-> h,
   probe |-> [pr EXCEPT !.cached = TRUE, !.known = Tools, !.has = h,
                        !.count = [t \in Tools |-> pr.count[t] + 1]],
   value |-> h]

\* Capabilities.detect_all() behind its lru_cache: caps is the dict the cache
\* holds once pr.cached.
detect_all(caps, pr, h) ==
  IF pr.cached
  THEN [caps |-> caps, probe |-> pr, value |-> caps]
  ELSE LET g == has_tool(pr, h, "gh")
           t == has_tool(g.probe, h, "git")
           found == [gh |-> g.value, git |-> t.value]
       IN [caps |-> found, probe |-> [t.probe EXCEPT !.cached = TRUE], value |-> found]

\* caps.get(name, False)
has_capability(caps, name) == IF name \in DOMAIN caps THEN caps[name] ELSE FALSE

\* ConfigModule.commands
ConfigCommands ==
  {"init", "validate", "apply", "rollback", "list", "evolution", "extract", "migrate"}

\* v2_commands of AgetCLI.route_command
v2_commands == {"init", "validate", "apply", "rollback", "list", "evolution", "extract"}

\* AgetCLI.modules
modules == {"config"}

VersionFlags == {"--version", "-v"}

HelpFlags == {"--help", "-h", "help"}

\* First tokens of a command line, and the tokens that may follow.
TopTokens == VersionFlags \cup HelpFlags \cup ConfigCommands \cup modules \cup {"unknown"}

RestTokens == {"path", "migrate", "nosuch"}

RECURSIVE ArgLists(_)
ArgLists(n) ==
  IF n = 0 THEN {<<>>}
  ELSE IF n = 1 THEN ArgLists(0) \cup {<<t>> : t \in TopTokens}
  ELSE ArgLists(n - 1) \cup
       {Append(a, u) : a \in {b \in ArgLists(n - 1) : Len(b) = n - 1}, u \in RestTokens}

\* ConfigModule.handle(command, args): code is what the command's handler
\* returns when it is run.
handle(command, args, code) ==
  IF command \notin ConfigCommands
  THEN [handled |-> <<[command |-> command, args |-> args]>>, ran |-> <<>>,
        printed |-> <<"config error", "config help">>, code |-> 0]
  ELSE [handled |-> <<[command |-> command, args |-> args]>>, ran |-> <<command>>,
        printed |-> <<>>, code |-> code]

\* A variant of route_command that reports an unknown command by a non-zero
\* code.
route_command_strict(args, code) ==
  IF args = <<>>
  THEN [handled |-> <<>>, ran |-> <<>>, printed |-> <<"help">>, code |-> 0]
  ELSE LET command == args[1]
       IN IF command \in VersionFlags
          THEN [handled |-> <<>>, ran |-> <<>>, printed |-> <<"version">>, code |-> 0]
          ELSE IF command \in HelpFlags
          THEN [handled |-> <<>>, ran |-> <<>>, printed |-> <<"help">>, code |-> 0]
          ELSE IF command \in v2_commands
          THEN handle(command, Tail(args), code)
          ELSE IF command \in modules
          THEN (IF Len(args) < 2
                THEN [handled |-> <<>>, ran |-> <<>>, printed |-> <<"config help">>,
                      code |-> 0]
                ELSE handle(args[2], Tail(Tail(args)), code))
          ELSE [handled |-> <<>>, ran |-> <<>>, printed |-> <<"error", "help">>,
                code |-> 1]

\* AgetCLI.route_command(args): the calls made to the config module, the
\* command handlers run, what is printed and the code returned.
route_command(args, code) ==
  IF args = <<>>
  THEN [handled |-> <<>>, ran |-> <<>>, printed |-> <<"help">>, code |-> 0]
  ELSE LET command == args[1]
       IN IF command \in VersionFlags
          THEN [handled |-> <<>>, ran |-> <<>>, printed |-> <<"version">>, code |-> 0]
          ELSE IF command \in HelpFlags
          THEN [handled |-> <<>>, ran |-> <<>>, printed |-> <<"help">>, code |-> 0]
          ELSE IF command \in v2_commands
          THEN handle(command, Tail(args), code)
          ELSE IF command \in modules
          THEN (IF Len(args) < 2
                THEN [handled |-> <<>>, ran |-> <<>>, printed |-> <<"config help">>,
                      code |-> 0]
                ELSE handle(args[2], Tail(Tail(args)), code))
          ELSE [handled |-> <<>>, ran |-> <<>>, printed |-> <<"error", "help">>,
                code |-> 0]

\* probe once a call that is no capability call has been made since.
Forget(pr) == [pr EXCEPT !.op = "none", !.name = "", !.seen = NoTools, !.answer = FALSE]

\* A fresh process in a fresh project, on a host with any set of tools.
CliInit ==
  /\ live = [p \in Paths |-> Absent]
  /\ dirs = << >>
  /\ manifest = << >>
  /\ now = 0
  /\ result = NoResult
  /\ pre_live = live
  /\ snap = << >>
  /\ capabilities = NoTools
  /\ call = NoCall
  /\ host \in CapabilitySets
  /\ probe = Unprobed
  /\ cli = NoRun

\* A tool is installed or removed while the process runs.
ChangeHost ==
  /\ \E t \in Tools : host' = [host EXCEPT ![t] = ~@]
  /\ UNCHANGED <<bvars, capabilities, call, probe, cli>>

\* Capabilities.has_gh() or has_git() called directly.
HasTool ==
  /\ \E t \in Tools : \E r \in {has_tool(probe, host, t)} :
       probe' = [Forget(r.probe) EXCEPT !.op = "has_tool", !.name = t,
                                        !.answer = r.value]
  /\ cli' = NoRun
  /\ UNCHANGED <<bvars, capabilities, call, host>>

\* Capabilities.detect_all()
DetectAll ==
  /\ \E r \in {detect_all(capabilities, probe, host)} :
       /\ capabilities' = r.caps
       /\ probe' = [Forget(r.probe) EXCEPT !.op = "detect_all", !.seen = r.value]
  /\ cli' = NoRun
  /\ UNCHANGED <<bvars, call, host>>

\* Capabilities.has_capability(name)
HasCapability ==
  /\ \E name \in Tools \cup {"docker"} :
       \E r \in {detect_all(capabilities, probe, host)} :
         /\ capabilities' = r.caps
         /\ probe' = [r.probe EXCEPT !.op = "has_capability", !.name = name,
                                     !.seen = r.value,
                                     !.answer = has_capability(r.value, name)]
  /\ cli' = NoRun
  /\ UNCHANGED <<bvars, call, host>>

\* AgetCLI().route_command(args): a handler that is run constructs its
\* command, whose __init__ takes self.capabilities from detect_all().
RouteCommand ==
  /\ \E args \in ArgLists(MaxArgs) :
       \E code \in {c \in {0, 1} : c = 1 => route_command(args, 0).ran # <<>>} :
       \E r \in {route_command(args, code)} :
         /\ cli' = [args |-> args, routed |-> TRUE, handled |-> r.handled,
                    ran |-> r.ran, printed |-> r.printed, code |-> r.code]
         /\ IF r.ran = <<>>
            THEN capabilities' = capabilities /\ probe' = Forget(probe)
            ELSE \E d \in {detect_all(capabilities, probe, host)} :
                   /\ capabilities' = d.caps
                   /\ probe' = [d.probe EXCEPT !.op = "init", !.name = r.ran[1],
                                               !.seen = d.value]
  /\ UNCHANGED <<bvars, call, host>>

CliNext ==
  \/ ChangeHost
  \/ HasTool
  \/ DetectAll
  \/ HasCapability
  \/ RouteCommand

SpecCli == CliInit /\ [][CliNext]_vars

\* ------------------------------------------------------------------------
\* Properties of BackupManager
\* ------------------------------------------------------------------------
RollbackSucceeded == result.op = "rollback" /\ result.status = "success"

InFiles(id, p) == \E i \in 1..Len(manifest[id].files) : manifest[id].files[i] = p

\* The backup directory id holds path p exactly as it is in the live files lv.
HoldsAsIn(id, p, lv) ==
  CASE lv[p].kind = "file" -> InFiles(id, p) /\ dirs[id][p].copy = lv[p].content
    [] lv[p].kind = "link" -> InFiles(id, p) /\ dirs[id][p].link = lv[p].target
    [] OTHER -> ~InFiles(id, p)

Listed(id) == \E i \in 1..Len(list_backups(store)) : list_backups(store)[i].id = id

\* C1: every successful rollback(X) has written a backup with reason
\* "pre-rollback" that holds the tracked files as they were when the call
\* started (before any live file was overwritten); that backup is listed by
\* list_backups(), is newer than X and is the returned pre_rollback_backup.
C1_PreRollbackBackupFirst ==
  RollbackSucceeded =>
    LET P == result.pre_rollback_backup
        X == result.backup_id
    IN /\ P \in DOMAIN manifest
       /\ P \in DOMAIN dirs
       /\ manifest[P].reason = "pre-rollback"
       /\ \A p \in Paths : HoldsAsIn(P, p, pre_live)
       /\ Listed(P)
       /\ P > X

\* C2: a rollback is undoable: when rollback(X) of an existing backup X
\* succeeded from live state S with safety backup P, a following successful rollback(P) leaves the tracked
\* files exactly in state S.
C2_RollbackUndoable ==
  [][ ( /\ RollbackSucceeded
        /\ result.backup_id \in DOMAIN manifest
        /\ result'.op = "rollback"
        /\ result'.status = "success"
        /\ result'.requested = result.pre_rollback_backup
        /\ now' # now )
      => live' = pre_live ]_bvars

\* Content read through path p (following a symlink), NoContent if none.
ReadContent(lv, p) ==
  LET q == Deref(lv, p, Len(files_to_backup) + 1)
  IN IF q = NoPath THEN NoContent ELSE lv[q].content

\* Path p is now what it was in lv: the same link target, or the same content.
SameAsIn(p, lv) ==
  IF lv[p].kind = "link"
  THEN live[p] = lv[p]
  ELSE ReadContent(live, p) = lv[p].content

\* B is a backup written before the last call started.
EarlierBackup(B) == B \in DOMAIN manifest /\ B # result.pre_rollback_backup

\* C3: round trip: after a successful rollback(B) of a backup B written by an
\* earlier create_backup, every file listed in B.files has the content (or,
\* for a symlink, the link target) it had when B was captured.
C3_RoundTrip ==
  (RollbackSucceeded /\ EarlierBackup(result.backup_id)) =>
    \A p \in Paths :
      InFiles(result.backup_id, p) => SameAsIn(p, snap[result.backup_id])

\* C4: a tracked file that is a symlink when a backup is written is recorded
\* as a sidecar {is_symlink, target}, and a successful rollback of that backup
\* leaves a symlink with the same target at that path.
C4_SymlinkCapturedAndRestored ==
  /\ (result.op = "create_backup") =>
       \A p \in Paths :
         (pre_live[p].kind = "link" /\ InFiles(result.backup_id, p)) =>
           dirs[result.backup_id][p].link = pre_live[p].target
  /\ (RollbackSucceeded /\ EarlierBackup(result.backup_id)) =>
       \A p \in Paths :
         (InFiles(result.backup_id, p) /\ snap[result.backup_id][p].kind = "link") =>
           live[p] = snap[result.backup_id][p]

\* C5: rollback(id) with an id that is not a key of the manifest, or whose
\* directory is missing, reports an error and changes neither the live files,
\* the manifest nor the backup directories.
C5_UnknownIdRejected ==
  [][ ( /\ result'.op = "rollback"
        /\ result'.requested # NoneId
        /\ (result'.requested \notin DOMAIN manifest \/ result'.requested \notin DOMAIN dirs)
        /\ <<result, pre_live>> # <<result', pre_live'>> )
      => ( /\ result'.status = "error"
           /\ UNCHANGED <<live, dirs, manifest>> ) ]_bvars

\* C6: rollback() without an id when list_backups() is empty returns the
\* error "No backups available" (it does not raise), writes no backup and
\* changes neither the live files nor the manifest.
C6_NoBackupsAvailable ==
  [][ ( /\ result'.op = "rollback"
        /\ result'.requested = NoneId
        /\ list_backups(store) = <<>> )
      => ( /\ result'.status = "error"
           /\ result'.error = "No backups available"
           /\ UNCHANGED <<live, dirs, manifest>> ) ]_bvars

\* A rollback() without id was refused on a project that has tracked files
\* and an indexed backup whose directory is gone.
C6_Witness ==
  /\ result.op = "rollback"
  /\ result.requested = NoneId
  /\ result.error = "No backups available"
  /\ manifest # << >>
  /\ \E p \in Paths : live[p].kind # "absent"

\* ------------------------------------------------------------------------
\* Properties of command execution
\* ------------------------------------------------------------------------
\* The last call went through BaseCommand.execute.
ViaBase == call.via = "BaseCommand.execute"

\* The richest tier that is available in caps and that the command's class
\* implements itself.
RichestImplemented(cmd, caps) ==
  IF caps.gh /\ "gh" \in Overrides(cmd) THEN "gh"
  ELSE IF caps.git /\ "git" \in Overrides(cmd) THEN "git"
  ELSE "basic"

\* C7: BaseCommand.execute runs the richest tier that is both available and
\* implemented by the command (gh, else git, else basic); a command that
\* implements only tier_basic runs tier_basic and succeeds (when its body
\* does) for every capability set.
C7_RichestImplementedTier ==
  ViaBase =>
    /\ call.invoked = <<RichestImplemented(call.cmd, capabilities)>>
    /\ (Overrides(call.cmd) = {"basic"} /\ call.body_ok) =>
         (call.result.success /\ call.result.tier_used = "basic")

\* C8: within one BaseCommand.execute call the framework invokes exactly one
\* tier body; when that body raises no lower tier is invoked and a failure
\* result is returned.
C8_ExactlyOneTierBody ==
  ViaBase =>
    /\ Len(call.invoked) = 1
    /\ call.raised =>
         /\ call.returned
         /\ ~call.escaped
         /\ ~call.result.success
         /\ "error" \in call.result.keys

\* C9: no exception raised inside a command body escapes execute() of a
\* concrete command: it becomes a returned result with success False and an
\* error description.
C9_NoExceptionEscapes ==
  (call.cmd \in ConcreteCommands /\ call.raised) =>
    /\ ~call.escaped
    /\ call.returned
    /\ ~call.result.success
    /\ "error" \in call.result.keys

\* C10: every result returned by execute() of a concrete command, on success
\* and failure paths alike, contains success, a tier_used in {basic, git, gh,
\* error} and an execution_time.
C10_ResultFields ==
  (call.cmd \in ConcreteCommands /\ call.returned) =>
    /\ {"success", "tier_used", "execution_time"} \subseteq call.result.keys
    /\ call.result.tier_used \in {"basic", "git", "gh", "error"}

\* C11: when a tier body raises, the failure result BaseCommand.execute
\* returns carries the error description, the tier that was attempted (the
\* tier selected for the call) and the elapsed time.
C11_FailureCarriesAttemptedTier ==
  (ViaBase /\ call.raised /\ call.returned) =>
    /\ "error" \in call.result.keys
    /\ "tier_used" \in call.result.keys
    /\ call.result.tier_used = call.invoked[1]
    /\ "execution_time" \in call.result.keys
    /\ call.result.execution_time = call.seconds

\* C12: whenever a BaseCommand.execute call takes more than SoftCeiling
\* seconds it still returns a result, that result has a warning field whether
\* the tier body returned or raised, and the success flag is the one the body
\* gave.
C12_SlowCallWarns ==
  (ViaBase /\ call.seconds > SoftCeiling) =>
    /\ call.returned
    /\ "warning" \in call.result.keys
    /\ (~call.raised => call.result.success = call.body_ok)

\* C13: with gh and git both unavailable, execute() of every command built
\* on BaseCommand.execute runs only tier_basic and reports tier_used "basic".
C13_NoToolsRunsBasic ==
  (ViaBase /\ ~capabilities.gh /\ ~capabilities.git) =>
    /\ call.invoked = <<"basic">>
    /\ call.returned
    /\ call.result.tier_used = "basic"

\* ------------------------------------------------------------------------
\* Properties of cleanup_old_backups and list_backups
\* ------------------------------------------------------------------------
\* The k most recent of the backups ids (an id is its timestamp).
MostRecent(ids, k) == {id \in ids : Cardinality({j \in ids : j > id}) < k}

\* C14: for keep >= 1 on a project with n backups, cleanup_old_backups(keep)
\* returns max(0, n - keep), deletes exactly the directories of the n - keep
\* oldest backups, and leaves a manifest whose keys are exactly the ids of the
\* keep most recent backups.
C14_CleanupKeepsMostRecent ==
  [][ ( /\ result'.op = "cleanup_old_backups"
        /\ result'.keep >= 1 )
      => LET ids == DOMAIN manifest
             n == Cardinality(ids)
             kept == MostRecent(ids, result'.keep)
         IN /\ result'.removed = (IF n > result'.keep THEN n - result'.keep ELSE 0)
            /\ DOMAIN dirs' = DOMAIN dirs \ (ids \ kept)
            /\ DOMAIN manifest' = kept
            /\ \A id \in kept : dirs'[id] = dirs[id] /\ manifest'[id] = manifest[id] ]_vars

\* cleanup_old_backups(1) on a project with three backups removed the two
\* oldest.
C14_Witness ==
  /\ result.op = "cleanup_old_backups"
  /\ result.keep = 1
  /\ result.removed = 2
  /\ Cardinality(DOMAIN manifest) = 1

\* The backups that exist: indexed in the manifest, directory on disk.
Existing == DOMAIN manifest \cap DOMAIN dirs

\* C15: cleanup_old_backups(keep) never deletes the single most recent
\* backup, neither its directory nor its manifest entry, for every keep
\* including 0 and negative values.
C15_CleanupSparesNewest ==
  [][ ( /\ result'.op = "cleanup_old_backups"
        /\ Existing # {} )
      => \A id \in MostRecent(Existing, 1) :
           id \in DOMAIN dirs' /\ id \in DOMAIN manifest' ]_vars

\* C16: starting from an empty backup store, after any sequence of completed
\* create_backup, rollback and cleanup_old_backups calls the backup
\* directories on disk are exactly the keys of the manifest.
C16_DirsMatchManifest == DOMAIN dirs = DOMAIN manifest

\* A cleanup removed a backup on a project where a rollback had written its
\* pre-rollback backup, and a backup is left.
C16_Witness ==
  /\ result.op = "cleanup_old_backups"
  /\ result.removed >= 1
  /\ \E id \in DOMAIN manifest : manifest[id].reason = "pre-rollback"
  /\ DOMAIN dirs # {}

\* Where the backup id stands in a listing (0 when it is not listed).
Position(listing, id) ==
  IF \E i \in 1..Len(listing) : listing[i].id = id
  THEN CHOOSE i \in 1..Len(listing) : listing[i].id = id
  ELSE 0

\* C17: list_backups() returns the records newest-first by timestamp: of two
\* adjacent records the first has the greater or equal timestamp, and a
\* backup created later never appears after one created earlier (a backup
\* that a step adds to the manifest is listed before every backup that was
\* there before the step).
C17_ListedNewestFirst ==
  [][ /\ result'.op = "list_backups" =>
           \A i \in 1..(Len(result'.listing) - 1) :
              result'.listing[i].timestamp >= result'.listing[i + 1].timestamp
      /\ \A new \in DOMAIN manifest' \ DOMAIN manifest :
           LET listing == list_backups([live |-> live', dirs |-> dirs',
                                        manifest |-> manifest'])
           IN /\ Position(listing, new) > 0
              /\ \A old \in DOMAIN manifest :
                   Position(listing, old) > 0 =>
                     Position(listing, new) < Position(listing, old) ]_vars

\* A listing of three backups, created one after the other.
C17_Witness ==
  /\ result.op = "list_backups"
  /\ Len(result.listing) = 3
  /\ result.listing[1].id > result.listing[3].id

\* C18: list_backups() never fails on drift or absence: with a missing or
\* empty manifest it returns the empty list, and with manifest entries whose
\* directory is missing it returns exactly the entries whose directory
\* exists, each once, skipping the others without an error.
C18_ListToleratesDrift ==
  result.op = "list_backups" =>
    /\ result.status = "success"
    /\ (DOMAIN manifest = {} => result.listing = <<>>)
    /\ {result.listing[i].id : i \in 1..Len(result.listing)} = Existing
    /\ Len(result.listing) = Cardinality(Existing)
    /\ \A i \in 1..Len(result.listing) :
         LET id == result.listing[i].id
         IN /\ result.listing[i].timestamp = manifest[id].timestamp
            /\ result.listing[i].reason = manifest[id].reason
            /\ result.listing[i].files = manifest[id].files

\* A listing of a store where one indexed backup has lost its directory and
\* another has not.
C18_Witness ==
  /\ result.op = "list_backups"
  /\ DOMAIN manifest \ DOMAIN dirs # {}
  /\ Len(result.listing) >= 1

\* C19: list_backups() is read-only and idempotent: it changes neither the
\* manifest, the backup directories nor the live files, and a second call
\* right after a first returns the same ordered list.
C19_ListReadOnlyIdempotent ==
  [][ result'.op = "list_backups" =>
        /\ manifest' = manifest
        /\ dirs' = dirs
        /\ live' = live
        /\ (result.op = "list_backups" => result'.listing = result.listing) ]_vars

\* A listing of a store with drift: two backups listed, one indexed backup
\* without its directory, all still there after the call.
C19_Witness ==
  /\ result.op = "list_backups"
  /\ Len(result.listing) = 2
  /\ Cardinality(DOMAIN manifest) = 3
  /\ Cardinality(DOMAIN dirs) = 2

\* The backup written by the call a step makes: the returned id of
\* create_backup, the pre-rollback backup of rollback (NoId otherwise).
WrittenId(res) ==
  IF res.op = "create_backup" THEN res.backup_id
  ELSE IF res.op = "rollback" THEN res.pre_rollback_backup
  ELSE NoId

\* C20: backup ids are unique and ordered: every create_backup call (the
\* internal pre-rollback call of rollback included), however soon after the
\* previous one, yields an id that no earlier backup has and that sorts
\* after every earlier id and timestamp, and it overwrites no existing
\* manifest entry or backup directory.
C20_IdsUniqueOrdered ==
  [][ WrittenId(result') # NoId =>
        LET id == WrittenId(result')
        IN /\ id \notin DOMAIN manifest
           /\ id \notin DOMAIN dirs
           /\ \A old \in DOMAIN manifest :
                /\ id > old
                /\ manifest'[id].timestamp > manifest[old].timestamp
                /\ manifest'[old] = manifest[old]
           /\ \A old \in DOMAIN dirs : dirs'[old] = dirs[old] ]_vars

\* C21: create_backup(reason) never fails because a tracked file is missing:
\* the files it records are exactly the tracked paths, in their fixed order,
\* that exist in the live project when it is called, files_backed_up is the
\* length of that list, and the manifest gains one entry with that id,
\* reason and list.
C21_CreateRecordsExistingFiles ==
  [][ result'.op = "create_backup" =>
        LET id == result'.backup_id
            expected == SelectSeq(files_to_backup, LAMBDA p : exists(live, p))
        IN /\ result'.status = "success"
           /\ result'.files_backed_up = Len(expected)
           /\ id \notin DOMAIN manifest
           /\ DOMAIN manifest' = DOMAIN manifest \cup {id}
           /\ manifest'[id].backup_id = id
           /\ manifest'[id].reason = "manual"
           /\ manifest'[id].files = expected
           /\ \A old \in DOMAIN manifest \ {id} : manifest'[old] = manifest[old] ]_vars

C23_DefaultIsMostRecent ==
  [][ ( /\ result'.op = "rollback"
        /\ result'.requested = NoneId
        /\ Existing # {} )
      => \A top \in MostRecent(Existing, 1) :
           LET chosen == rollback_existing(store, top, now)
           IN /\ result'.backup_id = top
              /\ result'.status = chosen.status
              /\ result'.files_restored = chosen.files_restored
              /\ result'.pre_rollback_backup = chosen.pre_rollback_backup
              /\ live' = chosen.st.live
              /\ dirs' = chosen.st.dirs
              /\ manifest' = chosen.st.manifest ]_vars

\* rollback() chose the newer of two existing backups and restored a file.
C23_Witness ==
  /\ RollbackSucceeded
  /\ result.requested = NoneId
  /\ result.files_restored >= 1
  /\ \E old \in Existing : old < result.backup_id
  /\ result.pre_rollback_backup > result.backup_id

\* C24: for every command handler of ConfigModule (validate, apply, rollback,
\* list, evolution, extract, migrate) the exit code is 0 when the command
\* returned a structured success and non-zero when it returned a structured
\* failure.
C24_ExitCodeFollowsSuccess ==
  (call.cmd \in ConcreteCommands /\ call.returned) =>
    /\ call.code # NoCode
    /\ (call.code = 0) = call.result.success

\* A rollback that found no backup to restore came back as a failure result
\* and the handler returned a non-zero code.
C24_Witness ==
  /\ call.cmd = "rollback"
  /\ call.returned
  /\ ~call.list
  /\ ~call.raised
  /\ ~call.result.success
  /\ call.code = 1

\* C25: route_command handles an empty argument list, --version/-v and
\* --help/-h/help before any dispatch (the config module is not called) and
\* returns 0; for a top-level token that is no flag, no registered command
\* and no module it prints an error line, then the help text, and returns 0.
C25_FlagsAndUnknownBeforeDispatch ==
  cli.routed =>
    /\ (cli.args = <<>> \/ cli.args[1] \in HelpFlags) =>
         /\ cli.handled = <<>>
         /\ cli.printed = <<"help">>
         /\ cli.code = 0
    /\ (cli.args # <<>> /\ cli.args[1] \in VersionFlags) =>
         /\ cli.handled = <<>>
         /\ cli.printed = <<"version">>
         /\ cli.code = 0
    /\ ( /\ cli.args # <<>>
         /\ cli.args[1] \notin VersionFlags \cup HelpFlags \cup ConfigCommands \cup modules ) =>
         /\ cli.handled = <<>>
         /\ cli.printed = <<"error", "help">>
         /\ cli.code = 0

\* 'aget unknown path' was routed: error line, help text, code 0.
C25_Witness ==
  /\ cli.routed
  /\ cli.args = <<"unknown", "path">>
  /\ cli.printed = <<"error", "help">>
  /\ cli.code = 0

\* C26: every command registered in ConfigModule.commands (init, validate,
\* apply, rollback, list, evolution, extract, migrate) is reachable as a
\* top-level token: route_command([c, ...rest]) calls the config module's
\* handle(c, rest) exactly once and returns its code; 'aget migrate <path>'
\* reaches MigrateCommand, not the unknown-command path.
C26_RegisteredCommandsRouted ==
  (cli.routed /\ cli.args # <<>> /\ cli.args[1] \in ConfigCommands) =>
    /\ cli.handled = <<[command |-> cli.args[1], args |-> Tail(cli.args)]>>
    /\ cli.ran = <<cli.args[1]>>
    /\ cli.printed = <<>>

\* C27: the capability set is probed at most once per process: no tool is
\* looked up twice, and once detect_all() has returned, every later
\* detect_all() or has_capability() call and every newly constructed command
\* sees the same values without a new lookup, even when a tool has appeared
\* on or gone from the host in between.
C27_ProbedOnce ==
  [][ /\ \A t \in Tools : probe'.count[t] <= 1
      /\ probe.cached =>
           /\ probe'.cached
           /\ capabilities' = capabilities
           /\ probe'.count = probe.count
           /\ (probe'.op \in {"detect_all", "has_capability", "init"} =>
                 probe'.seen = capabilities)
           /\ (probe'.op = "has_capability" =>
                 probe'.answer = has_capability(capabilities, probe'.name)) ]_vars

\* A command was constructed after both tools had changed on the host since
\* detection, and it got the values detected first.
C27_Witness ==
  /\ probe.cached
  /\ probe.op = "init"
  /\ probe.seen = capabilities
  /\ \A t \in Tools : host[t] # capabilities[t]

\* The backup B holds path p as a regular file.
RegularIn(B, p) ==
  InFiles(B, p) /\ dirs[B][p].copy # NoContent /\ dirs[B][p].link = NoTarget

\* C28: restoring a file recorded as a regular file makes the destination
\* path hold exactly the backed-up content and changes no other tracked
\* file, whatever is at the destination, a symlink to another tracked file
\* included: after a successful rollback(B) every path B holds as a regular
\* file reads as the content B holds, and every path B does not list is as
\* it was before the call.
C28_RegularRestoreTouchesOnlyItsPath ==
  ( /\ RollbackSucceeded
    /\ EarlierBackup(result.backup_id)
    /\ result.backup_id \in DOMAIN dirs )
  => \A p \in Paths :
       /\ RegularIn(result.backup_id, p) =>
            ReadContent(live, p) = dirs[result.backup_id][p].copy
       /\ ~InFiles(result.backup_id, p) => live[p] = pre_live[p]

\* C29: in RollbackCommand the git and gh tiers refine the basic tier: for
\* the same arguments and starting state the files restored, the backups
\* created and the success flag are those of the basic tier whichever tier
\* runs, and a failure or timeout of the git commit or gh issue step only
\* adds git_commit / gh_issue = False to an otherwise successful result.
C29_RichTiersRefineBasic ==
  [][ ( /\ call'.cmd = "rollback"
        /\ call'.returned
        /\ ~call'.raised
        /\ ~call'.list )
      => LET basic == rollback(store, result'.requested, now)
         IN /\ live' = basic.st.live
            /\ dirs' = basic.st.dirs
            /\ manifest' = basic.st.manifest
            /\ call'.result.success = (basic.status = "success")
            /\ (call'.git \in {"nonzero", "raise"} =>
                  /\ "git_commit" \in call'.result.keys
                  /\ ~call'.result.git_commit)
            /\ (call'.gh \in {"nonzero", "raise"} =>
                  /\ "gh_issue" \in call'.result.keys
                  /\ ~call'.result.gh_issue) ]_vars

\* C30: one RollbackCommand.execute call performs at most one
\* BackupManager.rollback and so writes at most one pre-rollback backup,
\* whichever tier is selected; in --list mode it performs no rollback,
\* writes no backup and changes no live file.
C30_AtMostOneRollback ==
  [][ call'.cmd = "rollback"
      => LET once == rollback(store, result'.requested, now).st
         IN /\ \/ UNCHANGED <<live, dirs, manifest>>
               \/ (live' = once.live /\ dirs' = once.dirs /\ manifest' = once.manifest)
            /\ Cardinality(DOMAIN manifest' \ DOMAIN manifest) <= 1
            /\ Cardinality(DOMAIN dirs' \ DOMAIN dirs) <= 1
            /\ (call'.list => UNCHANGED <<live, dirs, manifest>>) ]_vars

\* The gh tier ran a rollback that restored a backup: one pre-rollback
\* backup beside the restored one.
C30_Witness ==
  /\ call.cmd = "rollback"
  /\ call.invoked = <<"gh">>
  /\ call.result.success
  /\ ~call.list
  /\ result.pre_rollback_backup # NoId
  /\ DOMAIN manifest = {result.backup_id, result.pre_rollback_backup}
  /\ result.backup_id # result.pre_rollback_backup

====
